---- MODULE Spec2Model ----
(***************************************************************************)
(* Directory-entry cache of the starnix VFS layer (DirEntry and its        *)
(* children cache): lookup-or-create, revalidation, eviction and           *)
(* reference-count decay, as implemented in dir_entry.h; and Mount,        *)
(* MountInfo and the kernel's mount-id counter, as implemented in mount.cc.*)
(***************************************************************************)
EXTENDS Integers, Sequences, FiniteSets, TLC

\* ------------------------------------------------------------------ bounds
MaxEntries == 3          \* DirEntry objects ever constructed (root included)
MaxNodes == 3            \* FsNode objects ever constructed (root included)
MaxCalls == 2            \* calls issued in all
MaxMounts == 2           \* Mount objects ever constructed
MaxMountCount == 1       \* filesystems mounted on entries at any one time
MaxAnonCalls == 3        \* calls of anon_fs issued in all
MaxRunCalls == 3         \* calls of run_in_state issued in all
MaxTasks == 2            \* tasks wrapped by AutoReleasableTask::From
MaxWrappers == 3         \* AutoReleasableTask objects constructed in all

NAME_MAX == 255
SEPARATOR == "/"

Threads == {"t1", "t2"}

\* ------------------------------------------------------------------- names
Rep(c, n) == [i \in 1..n |-> c]
NameA == <<"a">>
NameB == <<"b">>
LongName == Rep("a", NAME_MAX + 1)
LongSepName == [LongName EXCEPT ![2] = SEPARATOR]
ValidNames == {NameA, NameB}
NameInputs ==
  ValidNames \cup {<<>>, <<".">>, <<".", ".">>, <<"a", SEPARATOR, "b">>,
                   LongName, LongSepName}

Ops == {"create_entry", "get_or_create_entry", "component_lookup"}
\* Inputs of the two-thread specification.
MainOps == {"get_or_create_entry", "component_lookup"}
MainNames == {NameA}
LookupFails == BOOLEAN
Errnos == {"EEXIST", "ENAMETOOLONG", "EINVAL", "ENOTDIR", "ENOENT", "EIO"}

NoEntry == 0
NoNode == 0
RootEntry == 1
RootNode == 1

NoRet == [kind |-> "none", entry |-> NoEntry, exists |-> FALSE, err |-> "none"]
OkRet(e, x) == [kind |-> "ok", entry |-> e, exists |-> x, err |-> "none"]
ErrRet(c) == [kind |-> "err", entry |-> NoEntry, exists |-> FALSE, err |-> c]

VARIABLES
  nodes,      \* FsNode objects: sequence of [isDir, from, name, fs]
  links,      \* backing store: the nodes currently bound to their (from, name)
  entries,    \* DirEntry objects: sequence of [node, parent, name, mount_count]
  children,   \* children_[e]: the set of entries in e's children tree
  destroyed,  \* entries whose destructor has completed
  evicted,    \* history: entries removed after a failed revalidation
  held,       \* entries strongly held outside the calls (files, cwd, fs cache)
  pc, op, dir, name, child, cr, ret, log, calls,
  panicked    \* the kernel aborted (failed assertion, __builtin_abort)

\* The mounts and the kernel's mount-id counter.
VARIABLES
  mounts,          \* Mount objects: sequence of [id, flags, root, fs, mountpoint, seen]
  next_mount_id_,  \* Kernel::next_mount_id_
  kernel_alive,    \* the Kernel behind FileSystem::kernel_ can still be locked
  mt,              \* per thread: its call of Mount::New in progress
  mq,              \* the last query made of a Mount or MountInfo, and its answer
  anon,            \* Kernel::anon_fs_ and the calls of anon_fs in progress
  lk,              \* who holds which children lock and which state lock
  cur,             \* the current task's run state and its run_in_state calls
  art              \* the AutoReleasableTask wrappers and the releases of tasks

mvars == <<mounts, next_mount_id_, kernel_alive, mt, mq, anon>>
tvars == <<cur, art>>
dvars == <<nodes, links, entries, children, destroyed, evicted, held,
           pc, op, dir, name, child, cr, ret, log, calls>>

vars == <<nodes, links, entries, children, destroyed, evicted, held,
          pc, op, dir, name, child, cr, ret, log, calls, panicked,
          mounts, next_mount_id_, kernel_alive, mt, mq, anon, lk, cur, art>>

EntryIds == 1..Len(entries)

\* ---------------------------------------------------------- reference counts
\* The strong holders of an entry: handles outside the calls, the handles a
\* call in progress keeps in its frame, the mount's root handle, and the
\* parent field of every child whose destructor has not yet run.
HasHolder(e) ==
  \/ e = RootEntry
  \/ e \in held
  \/ \E t \in Threads : pc[t] # "idle" /\ (dir[t] = e \/ child[t] = e \/ ret[t].entry = e)
  \/ \E t \in Threads : lk.rn[t].pc # "idle" /\ e \in {lk.rn[t].p1, lk.rn[t].p2, lk.rn[t].src}
  \/ \E c \in EntryIds : c \notin destroyed /\ entries[c].parent = e

Live(e) == e \in EntryIds /\ e \notin destroyed /\ HasHolder(e)
Dying(e) == e \in EntryIds /\ e \notin destroyed /\ ~HasHolder(e)

\* util::WeakPtr<DirEntry>::Lock(): the upgrade succeeds only while the strong
\* count is above zero.
Upgrade(e) == IF Live(e) THEN e ELSE NoEntry

\* WAVL tree find by key (GetKey() is the entry's local name).
Find(d, n) == {c \in children[d] : entries[c].name = n}
FindOne(d, n) == IF Find(d, n) = {} THEN NoEntry ELSE CHOOSE c \in Find(d, n) : TRUE

\* ------------------------------------------------------------- name checks
\* Mutant: ".." is not treated as reserved.
reserved_without_dotdot(n) == n = <<>> \/ n = <<".">>

is_reserved_name(n) == n = <<>> \/ n = <<".">> \/ n = <<".", ".">>
contains(n, c) == \E i \in 1..Len(n) : n[i] = c

\* Mutant: the length check is off by one.
check_off_by_one(n) ==
  IF is_reserved_name(n) THEN "EEXIST"
  ELSE IF Len(n) > NAME_MAX + 1 THEN "ENAMETOOLONG"
  ELSE IF contains(n, SEPARATOR) THEN "EINVAL"
  ELSE "ok"

\* The checks create_entry_internal makes before get_or_create_child.
create_entry_internal_check(n) ==
  IF is_reserved_name(n) THEN "EEXIST"
  ELSE IF Len(n) > NAME_MAX THEN "ENAMETOOLONG"
  ELSE IF contains(n, SEPARATOR) THEN "EINVAL"
  ELSE "ok"

\* Mutant: every entry is taken to name a directory.
is_dir_always(d) == TRUE

\* node_->is_dir() of the entry d.
is_dir(d) == nodes[entries[d].node].isDir

\* ------------------------------------------------- the locked slow path
\* DirEntry::New: a fresh entry naming `node`, holding `parent` strongly.
DirEntryNew(node, parent, n) ==
  [node |-> node, parent |-> parent, name |-> n, mount_count |-> 0]

\* WAVLTree insert of the weak reference to c under its key.
ChildrenInsert(set, c, n) == (set \ {x \in set : entries[x].name = n}) \cup {c}

\* FsNode::lookup on the backing store: the node bound to (dn, n), if any.
BackingLookup(dn, n) == {m \in links : nodes[m].from = dn /\ nodes[m].name = n}

\* find_or_create_node: backing lookup first, create_fn only on ENOENT.
\* lkErr: the backing lookup fails with an error other than ENOENT.
\* fnRes: what create_fn does when invoked: "dir", "file" or an errno.
find_or_create_node(d, n, lkErr, fnRes) ==
  LET dn == entries[d].node
      found == BackingLookup(dn, n)
      base == [ok |-> TRUE, err |-> "none", node |-> NoNode, cr |-> "Existed",
               nodes |-> nodes, links |-> links, log |-> <<"lookup">>]
  IN  IF lkErr THEN [base EXCEPT !.ok = FALSE, !.err = "EIO",
                                   !.log = <<"lookup", "lookup_err">>]
      ELSE IF found # {} THEN [base EXCEPT !.node = CHOOSE m \in found : TRUE]
      ELSE IF fnRes \in Errnos
        THEN [base EXCEPT !.ok = FALSE, !.err = fnRes,
                          !.log = <<"lookup", "create_fn", "create_fn_err">>]
        ELSE [base EXCEPT !.node = Len(nodes) + 1, !.cr = "Created",
                          !.nodes = Append(nodes, [isDir |-> fnRes = "dir", from |-> dn, name |-> n,
                                                        fs |-> nodes[dn].fs]),
                          !.links = links \cup {Len(nodes) + 1},
                          !.log = <<"lookup", "create_fn">>]

\* Mutant: the new entry is built without its parent.
create_child_no_parent(d, n, lkErr, fnRes) ==
  LET F == find_or_create_node(d, n, lkErr, fnRes)
  IN  [ok |-> F.ok, err |-> F.err, cr |-> F.cr, nodes |-> F.nodes, links |-> F.links,
       log |-> F.log,
       child |-> IF F.ok THEN Len(entries) + 1 ELSE NoEntry,
       entries |-> IF F.ok THEN Append(entries, DirEntryNew(F.node, NoEntry, n)) ELSE entries]

\* Mutant: making a child counts as a mount on the parent.
create_child_bumps_parent(d, n, lkErr, fnRes) ==
  LET F == find_or_create_node(d, n, lkErr, fnRes)
  IN  [ok |-> F.ok, err |-> F.err, cr |-> F.cr, nodes |-> F.nodes, links |-> F.links,
       log |-> F.log,
       child |-> IF F.ok THEN Len(entries) + 1 ELSE NoEntry,
       entries |-> IF F.ok
                     THEN Append([entries EXCEPT ![d].mount_count = @ + 1],
                                 DirEntryNew(F.node, d, n))
                     ELSE entries]

\* create_child: wrap the node found or created in a new DirEntry whose parent
\* is the locked entry.
create_child(d, n, lkErr, fnRes) ==
  LET F == find_or_create_node(d, n, lkErr, fnRes)
  IN  [ok |-> F.ok, err |-> F.err, cr |-> F.cr, nodes |-> F.nodes, links |-> F.links,
       log |-> F.log,
       child |-> IF F.ok THEN Len(entries) + 1 ELSE NoEntry,
       entries |-> IF F.ok THEN Append(entries, DirEntryNew(F.node, d, n)) ELSE entries]

\* Mutant: the slow path does not look at the map again under the write lock.
locked_no_recheck(d, n, lkErr, fnRes) ==
  LET C == create_child(d, n, lkErr, fnRes)
  IN  IF ~C.ok
        THEN [ok |-> FALSE, err |-> C.err, cr |-> C.cr, child |-> NoEntry,
              nodes |-> nodes, links |-> links, entries |-> entries,
              children |-> children, log |-> C.log]
      ELSE [ok |-> TRUE, err |-> "none", cr |-> C.cr, child |-> C.child,
            nodes |-> C.nodes, links |-> C.links, entries |-> C.entries,
            children |-> Append([children EXCEPT ![d] = ChildrenInsert(children[d], C.child, n)], {}),
            log |-> C.log \o <<"created">>]

\* DirEntryLockedChildren::get_or_create_child, run under the write lock of d.
locked_get_or_create_child(d, n, lkErr, fnRes) ==
  LET it == FindOne(d, n)
      C == create_child(d, n, lkErr, fnRes)
  IN  IF it # NoEntry /\ Upgrade(it) # NoEntry
        THEN [ok |-> TRUE, err |-> "none", cr |-> "Existed", child |-> it,
              nodes |-> nodes, links |-> links, entries |-> entries,
              children |-> children, log |-> <<"accessed", "created">>]
      ELSE IF ~C.ok
        THEN [ok |-> FALSE, err |-> C.err, cr |-> C.cr, child |-> NoEntry,
              nodes |-> nodes, links |-> links, entries |-> entries,
              children |-> children, log |-> C.log]
      ELSE [ok |-> TRUE, err |-> "none", cr |-> C.cr, child |-> C.child,
            nodes |-> C.nodes, links |-> C.links, entries |-> C.entries,
            children |-> Append([children EXCEPT ![d] = ChildrenInsert(children[d], C.child, n)], {}),
            log |-> C.log \o <<"created">>]

\* Mutant: the fast path hands out the pointer without upgrading it.
fast_lookup_no_upgrade(d, n) == FindOne(d, n)

\* The read-locked check at the top of DirEntry::get_or_create_child.
fast_lookup(d, n) ==
  LET it == FindOne(d, n)
  IN  IF it # NoEntry THEN Upgrade(it) ELSE NoEntry

\* What a create_fn passed to create_entry / get_or_create_entry may do: make a
\* directory node, make a file node, or fail.
CreateFnResults == {"dir", "file", "EIO"}
\* component_lookup is get_or_create_child with a create_fn that answers ENOENT.
ComponentLookupFn == {"ENOENT"}

\* Mutant: the closure of component_lookup creates like any other.
FnResults_all(o) == CreateFnResults

FnResults(o) == IF o = "component_lookup" THEN ComponentLookupFn ELSE CreateFnResults

\* Mutant: create_entry returns the entry that already existed.
wrap_result_no_eexist(o, r) == r

\* What create_entry, get_or_create_entry and component_lookup make of the
\* result r of get_or_create_child: create_entry turns "existed" into EEXIST.
wrap_result(o, r) ==
  IF r.kind = "ok" /\ o = "create_entry" /\ r.exists THEN ErrRet("EEXIST") ELSE r

\* Mutant: a revalidated entry is reported as not having existed.
visit_exists_false(c, crv, rv) ==
  IF crv = "Created"
    THEN [pc |-> "done", ret |-> OkRet(c, FALSE), log |-> <<>>]
  ELSE IF rv = "true"
    THEN [pc |-> "done", ret |-> OkRet(c, FALSE), log |-> <<"revalidate_true">>]
  ELSE IF rv = "false"
    THEN [pc |-> "evict", ret |-> NoRet, log |-> <<"revalidate_false">>]
  ELSE [pc |-> "aborted", ret |-> NoRet, log |-> <<"revalidate_err">>]

\* The visit of the creation result (c, crv) in DirEntry::get_or_create_child:
\* Created returns at once; Existed is revalidated, and rv is the answer of
\* ops_->revalidate.  An error answer makes new_result an error, and the code
\* then takes the error of `result`, which holds a value: fit::result aborts.
visit(c, crv, rv) ==
  IF crv = "Created"
    THEN [pc |-> "done", ret |-> OkRet(c, FALSE), log |-> <<>>]
  ELSE IF rv = "true"
    THEN [pc |-> "done", ret |-> OkRet(c, TRUE), log |-> <<"revalidate_true">>]
  ELSE IF rv = "false"
    THEN [pc |-> "evict", ret |-> NoRet, log |-> <<"revalidate_false">>]
  ELSE [pc |-> "aborted", ret |-> NoRet, log |-> <<"revalidate_err">>]

RevalidateAnswers == {"true", "false", "EIO"}

\* Mutant: the retry returns the child that was just evicted.
retry_result_old(old, c, cr2) == OkRet(old, cr2 = "Existed")

\* The result of the retry after an eviction: the retried child c, and
\* existed unless the retry created the node.
retry_result(old, c, cr2) == OkRet(c, cr2 = "Existed")

\* Mutant: the eviction removes whatever entry is bound to the child's name.
internal_remove_by_name(set, c) ==
  {x \in set : entries[x].name # entries[c].name}

\* DirEntry::internal_remove_child: erase c from the tree if it is the current
\* occupant of its key.
internal_remove_child(set, c) ==
  IF c \in set THEN set \ {c} ELSE set

\* ------------------------------------------------------------------ mounts
\* MountFlags as sets of flag names.  STORED_ON_MOUNT is the mask new_with_root
\* tests its argument against.
STORED_ON_MOUNT == {"STORED_ON_MOUNT_BIT"}
\* The flags given to Mount::New.
MountFlagInputs ==
  {{}, {"RDONLY"}, {"STORED_ON_MOUNT_BIT"}, {"RDONLY", "STORED_ON_MOUNT_BIT"}}

NoMount == 0
FileSystems == {1, 2}
WhatToMount == [type : {"Fs"}, fs : FileSystems] \cup {[type |-> "Bind", fs |-> 0]}

MountIds == 1..Len(mounts)
\* A MountInfo: detached (no handle) or attached to a Mount.
MountInfo_detached == NoMount
MountInfos == {MountInfo_detached} \cup MountIds

NoMountpoint == [mount |-> NoMount, entry |-> NoEntry]

\* FileSystem::root() and FsNode::fs().
FsRoot(f) == CHOOSE e \in EntryIds : entries[e].parent = NoEntry /\ nodes[entries[e].node].fs = f
FsOf(e) == nodes[entries[e].node].fs

Mount_flags(m) == mounts[m].flags

\* Mutant: a detached MountInfo reports no flags.
MountInfo_flags_empty(h) == IF h # NoMount THEN Mount_flags(h) ELSE {}

MountInfo_flags(h) == IF h # NoMount THEN Mount_flags(h) ELSE {"NOATIME"}

\* Mutant: the read-only check looks at the mount's own flags only when attached
\* and tests NOATIME.
check_readonly_noatime(h) == IF "NOATIME" \in MountInfo_flags(h) THEN "EROFS" ELSE "ok"

check_readonly_filesystem(h) == IF "RDONLY" \in MountInfo_flags(h) THEN "EROFS" ELSE "ok"

\* Mutant: the root location is built with a detached MountInfo.
Mount_root_detached(m) == [mount |-> MountInfo_detached, entry |-> mounts[m].root]

\* Mount::root(): NamespaceNode{MountInfo{this}, root_}.
Mount_root(m) == [mount |-> m, entry |-> mounts[m].root]

\* Mount::mountpoint(): state->mountpoint.value() is taken without a test, so an
\* empty optional aborts; otherwise NamespaceNode::New(mount.Lock(), entry).
Mount_mountpoint(m) ==
  IF mounts[m].mountpoint = NoMountpoint
    THEN [kind |-> "abort", mount |-> NoMount, entry |-> NoEntry]
    ELSE [kind |-> "some", mount |-> mounts[m].mountpoint.mount,
          entry |-> mounts[m].mountpoint.entry]

\* Mutant: Mount::New takes the root of another filesystem.
Mount_New_other_root(what) == FsRoot(3 - what.fs)

\* Mount::New, case Fs: the root handed to new_with_root.
Mount_New_root(what) == FsRoot(what.fs)

\* Mutant: the Bind case hands out the most recent Mount.
Mount_New_bind_latest(what) == Len(mounts)

\* Mount::New, case Bind: return MountHandle(), the null handle.
Mount_New_bind(what) == NoMount

\* Mutant: no assertion on the flags.
flags_assert_off(flags) == TRUE

\* ASSERT(!flags.intersects(known_flags)) of new_with_root.
flags_assert(flags) == flags \cap STORED_ON_MOUNT = {}

\* Mutant: every mount gets id 0.
Mount_ctor_id_zero(id, flags, root, fs) ==
  [id |-> 0, flags |-> flags, root |-> root, fs |-> fs, mountpoint |-> NoMountpoint]

\* Mount::Mount(id, flags, root, fs); state_ is default-constructed.
Mount_ctor(id, flags, root, fs) ==
  [id |-> id, flags |-> flags, root |-> root, fs |-> fs, mountpoint |-> NoMountpoint]

\* Kernel::anon_fs_ starts unset; no FileSystem has been made for it.
NoFs == 0
AnonIdle == [pc |-> "idle", fs |-> NoFs]
AnonInit == [cell |-> NoFs, made |-> 0, calls |-> 0, rets |-> {},
             th |-> [t \in Threads |-> AnonIdle]]

\* No lock is held.  w: threads holding the write lock of an entry's children
\* map; d: entries whose destructor holds it; s: threads holding an entry's
\* state lock; rn: the multi-entry locking in progress of each thread.
LockIds == 1..(MaxEntries + 1)
RnIdle == [pc |-> "idle", p1 |-> NoEntry, p2 |-> NoEntry, n1 |-> <<>>, n2 |-> <<>>,
           locks |-> <<>>, n |-> 0, src |-> NoEntry, st |-> <<>>, k |-> 0]
LkInit == [w |-> [e \in LockIds |-> {}], d |-> [e \in LockIds |-> {}],
           s |-> [e \in LockIds |-> {}], rn |-> [t \in Threads |-> RnIdle]]

MtIdle == [pc |-> "idle", what |-> [type |-> "Bind", fs |-> 0], flags |-> {},
           root |-> NoEntry, id |-> 0, seen |-> 0, handle |-> NoMount]
NoQuery == [op |-> "none", arg |-> NoMount, flags |-> {}, err |-> "none",
            mount |-> NoMount, entry |-> NoEntry]

\* The current task: its run state, the activations of run_in_state on its
\* stack (innermost last) and what the last call returned.
RunStates == {"Running", "Waiter", "Event"}
NoRun == [kind |-> "none", err |-> "none", ran |-> FALSE, req |-> "Running",
          sig |-> FALSE, listen |-> FALSE, state |-> "Running"]
CurInit == [run_state |-> "Running", frames |-> <<>>, last |-> NoRun, calls |-> 0]

\* No wrapper yet.  w: the wrappers, each with its task_ (0: nullopt), the task
\* it held before it was emptied, and whether it is still alive; released: how
\* often release() ran on each task; empty_calls: release() calls made through
\* an empty optional.
NoTask == 0
ArtInit == [w |-> <<>>, released |-> [k \in 1..MaxTasks |-> 0], ntasks |-> 0,
            empty_calls |-> 0]

MountInit ==
  /\ cur = CurInit
  /\ art = ArtInit
  /\ mounts = <<>>
  /\ next_mount_id_ = 0
  /\ kernel_alive = TRUE
  /\ mt = [t \in Threads |-> MtIdle]
  /\ mq = NoQuery
  /\ anon = AnonInit
  /\ lk = LkInit

Init ==
  /\ nodes = <<[isDir |-> TRUE, from |-> NoNode, name |-> <<>>, fs |-> 1]>>
  /\ links = {}
  /\ entries = <<DirEntryNew(RootNode, NoEntry, <<>>)>>
  /\ children = <<{}>>
  /\ destroyed = {}
  /\ evicted = {}
  /\ held = {}
  /\ pc = [t \in Threads |-> "idle"]
  /\ op = [t \in Threads |-> "create_entry"]
  /\ dir = [t \in Threads |-> NoEntry]
  /\ name = [t \in Threads |-> <<>>]
  /\ child = [t \in Threads |-> NoEntry]
  /\ cr = [t \in Threads |-> "Created"]
  /\ ret = [t \in Threads |-> NoRet]
  /\ log = [t \in Threads |-> <<>>]
  /\ calls = 0
  /\ panicked = FALSE
  /\ MountInit

\* ------------------------------------------------------------------ actions
\* Each action is one atomic section of the code: a read-locked or write-locked
\* section of the children map together with the thread-local code after it.

\* A thread enters create_entry / get_or_create_entry / component_lookup on an
\* entry it holds: the name checks of create_entry_internal, the directory
\* check of get_or_create_child and the read-locked fast path.  A cache hit is
\* visited (revalidated) at once; a miss goes on to the write lock.
\* component_lookup makes no name check of its own, so a reserved name reaches
\* the ASSERT at the top of get_or_create_child.
StartWithBody(t, TheOps, Names) ==
  /\ UNCHANGED <<mvars, tvars>>
  /\ ~panicked /\ pc[t] = "idle" /\ calls < MaxCalls
  /\ \E o \in TheOps, d \in {RootEntry} \cup held, n \in Names, rv \in RevalidateAnswers :
       /\ LET chk == IF o = "component_lookup" THEN "ok" ELSE create_entry_internal_check(n)
              c == fast_lookup(d, n)
              V == visit(c, "Existed", rv)
          IN  /\ op' = [op EXCEPT ![t] = o]
              /\ dir' = [dir EXCEPT ![t] = d]
              /\ name' = [name EXCEPT ![t] = n]
              /\ calls' = calls + 1
              /\ IF chk # "ok"
                   THEN /\ pc' = [pc EXCEPT ![t] = "done"]
                        /\ ret' = [ret EXCEPT ![t] = ErrRet(chk)]
                        /\ UNCHANGED <<child, cr, log, panicked>>
                   ELSE IF is_reserved_name(n)
                     THEN /\ pc' = [pc EXCEPT ![t] = "aborted"]
                          /\ panicked' = TRUE
                          /\ UNCHANGED <<child, cr, ret, log>>
                   ELSE IF ~is_dir(d)
                     THEN /\ pc' = [pc EXCEPT ![t] = "done"]
                          /\ ret' = [ret EXCEPT ![t] = ErrRet("ENOTDIR")]
                          /\ UNCHANGED <<child, cr, log, panicked>>
                   ELSE IF c = NoEntry
                     THEN /\ pc' = [pc EXCEPT ![t] = "lockw"]
                          /\ UNCHANGED <<child, cr, ret, log, panicked>>
                     ELSE /\ child' = [child EXCEPT ![t] = c]
                          /\ cr' = [cr EXCEPT ![t] = "Existed"]
                          /\ log' = [log EXCEPT ![t] = <<"accessed">> \o V.log]
                          /\ pc' = [pc EXCEPT ![t] = V.pc]
                          /\ ret' = [ret EXCEPT ![t] = V.ret]
                          /\ panicked' = (V.pc = "aborted")
  /\ UNCHANGED <<nodes, links, entries, children, destroyed, evicted, held>>

StartWith(t, TheOps, Names) == StartWithBody(t, TheOps, Names) /\ UNCHANGED lk

Start(t) == StartWith(t, MainOps, MainNames)
StartAny(t) == StartWith(t, Ops, NameInputs)

\* The slow path: lock_children(), the locked get_or_create_child, the unlock,
\* purge_old_entries and the visit of the result.
SlowBody(t) ==
  /\ UNCHANGED <<mvars, tvars>>
  /\ ~panicked /\ pc[t] = "lockw"
  /\ \E lkErr \in LookupFails, fnRes \in FnResults(op[t]), rv \in RevalidateAnswers :
       LET R == locked_get_or_create_child(dir[t], name[t], lkErr, fnRes)
           V == visit(R.child, R.cr, rv)
       IN  /\ Len(R.entries) <= MaxEntries /\ Len(R.nodes) <= MaxNodes
           /\ nodes' = R.nodes /\ links' = R.links
           /\ entries' = R.entries /\ children' = R.children
           /\ IF R.ok
                THEN /\ child' = [child EXCEPT ![t] = R.child]
                     /\ cr' = [cr EXCEPT ![t] = R.cr]
                     /\ log' = [log EXCEPT ![t] = @ \o R.log \o <<"purge">> \o V.log]
                     /\ pc' = [pc EXCEPT ![t] = V.pc]
                     /\ ret' = [ret EXCEPT ![t] = V.ret]
                     /\ panicked' = (V.pc = "aborted")
                ELSE /\ log' = [log EXCEPT ![t] = @ \o R.log]
                     /\ pc' = [pc EXCEPT ![t] = "done"]
                     /\ ret' = [ret EXCEPT ![t] = ErrRet(R.err)]
                     /\ UNCHANGED <<child, cr, panicked>>
  /\ UNCHANGED <<destroyed, evicted, held, op, dir, name, calls>>

Slow(t) == SlowBody(t) /\ UNCHANGED lk

\* Revalidation said no: internal_remove_child under the write lock.
EvictBody(t) ==
  /\ UNCHANGED <<mvars, tvars>>
  /\ ~panicked /\ pc[t] = "evict"
  /\ children' = [children EXCEPT ![dir[t]] = internal_remove_child(@, child[t])]
  /\ evicted' = evicted \cup {child[t]}
  /\ log' = [log EXCEPT ![t] = @ \o <<"evict">>]
  /\ pc' = [pc EXCEPT ![t] = "relockw"]
  /\ UNCHANGED <<nodes, links, entries, destroyed, held,
                 op, dir, name, child, cr, ret, calls, panicked>>

Evict(t) == EvictBody(t) /\ UNCHANGED lk

\* The retry of the slow path with the original create_fn; its result is
\* returned without a second revalidation.  An error of the retry is taken
\* from `result` as well, which aborts.
RetryBody(t) ==
  /\ UNCHANGED <<mvars, tvars>>
  /\ ~panicked /\ pc[t] = "relockw"
  /\ \E lkErr \in LookupFails, fnRes \in FnResults(op[t]) :
       LET R == locked_get_or_create_child(dir[t], name[t], lkErr, fnRes)
       IN  /\ Len(R.entries) <= MaxEntries /\ Len(R.nodes) <= MaxNodes
           /\ nodes' = R.nodes /\ links' = R.links
           /\ entries' = R.entries /\ children' = R.children
           /\ IF R.ok
                THEN /\ log' = [log EXCEPT ![t] = @ \o R.log \o <<"purge">>]
                     /\ pc' = [pc EXCEPT ![t] = "done"]
                     /\ ret' = [ret EXCEPT ![t] = retry_result(child[t], R.child, R.cr)]
                     /\ UNCHANGED panicked
                ELSE /\ log' = [log EXCEPT ![t] = @ \o R.log]
                     /\ pc' = [pc EXCEPT ![t] = "aborted"]
                     /\ panicked' = TRUE
                     /\ UNCHANGED ret
  /\ UNCHANGED <<destroyed, evicted, held, op, dir, name, child, cr, calls>>

Retry(t) == RetryBody(t) /\ UNCHANGED lk

\* The call returns: its frame is popped, and the caller keeps the entry it
\* was given or drops it.
FinishBody(t) ==
  /\ UNCHANGED <<mvars, tvars>>
  /\ ~panicked /\ pc[t] = "done"
  /\ \E keep \in BOOLEAN :
       /\ keep => wrap_result(op[t], ret[t]).kind = "ok"
       /\ held' = IF keep THEN held \cup {ret[t].entry} ELSE held
  /\ pc' = [pc EXCEPT ![t] = "idle"]
  /\ op' = [op EXCEPT ![t] = "create_entry"]
  /\ dir' = [dir EXCEPT ![t] = NoEntry]
  /\ name' = [name EXCEPT ![t] = <<>>]
  /\ child' = [child EXCEPT ![t] = NoEntry]
  /\ cr' = [cr EXCEPT ![t] = "Created"]
  /\ ret' = [ret EXCEPT ![t] = NoRet]
  /\ log' = [log EXCEPT ![t] = <<>>]
  /\ UNCHANGED <<nodes, links, entries, children, destroyed, evicted, calls, panicked>>

Finish(t) == FinishBody(t) /\ UNCHANGED lk

\* An outside holder (an open file, the cwd, the filesystem's entry cache)
\* releases its handle.
DropHeldBody(e) ==
  /\ UNCHANGED <<mvars, tvars>>
  /\ ~panicked /\ e \in held
  /\ held' = held \ {e}
  /\ UNCHANGED <<nodes, links, entries, children, destroyed, evicted,
                 pc, op, dir, name, child, cr, ret, log, calls, panicked>>

DropHeld(e) == DropHeldBody(e) /\ UNCHANGED lk

\* ~DirEntry of an entry whose last strong reference is gone: it leaves its
\* parent's children map (under the parent's write lock) and releases the parent.
DestroyBody(e) ==
  /\ UNCHANGED <<mvars, tvars>>
  /\ ~panicked /\ Dying(e)
  /\ LET p == entries[e].parent
     IN  /\ children' = IF p = NoEntry THEN children
                        ELSE [children EXCEPT ![p] = internal_remove_child(@, e)]
         /\ entries' = [entries EXCEPT ![e].parent = NoEntry]
  /\ destroyed' = destroyed \cup {e}
  /\ UNCHANGED <<nodes, links, evicted, held,
                 pc, op, dir, name, child, cr, ret, log, calls, panicked>>

Destroy(e) == DestroyBody(e) /\ UNCHANGED lk

\* The backing store changes behind the cache (NFS, FUSE): a bound name goes.
ExternalRemoveBody(m) ==
  /\ UNCHANGED <<mvars, tvars>>
  /\ ~panicked /\ m \in links
  /\ links' = links \ {m}
  /\ UNCHANGED <<nodes, entries, children, destroyed, evicted, held,
                 pc, op, dir, name, child, cr, ret, log, calls, panicked>>

ExternalRemove(m) == ExternalRemoveBody(m) /\ UNCHANGED lk

Next ==
  \/ \E t \in Threads : Start(t)
  \/ \E t \in Threads : Slow(t)
  \/ \E t \in Threads : Evict(t)
  \/ \E t \in Threads : Retry(t)
  \/ \E t \in Threads : Finish(t)
  \/ \E e \in held : DropHeld(e)
  \/ \E e \in EntryIds : Destroy(e)
  \/ \E m \in links : ExternalRemove(m)

Spec == Init /\ [][Next]_vars

\* The same with fair lock acquisition and a backing store whose calls return:
\* a thread that stands before a write-locked section gets through it.
SpecLive ==
  /\ Init /\ [][Next]_vars
  /\ \A t \in Threads : WF_vars(Slow(t)) /\ WF_vars(Evict(t)) /\ WF_vars(Retry(t))

\* The backing store already binds "a" under the root; nothing is cached yet.
InitWarm ==
  /\ nodes = <<[isDir |-> TRUE, from |-> NoNode, name |-> <<>>, fs |-> 1],
               [isDir |-> FALSE, from |-> RootNode, name |-> NameA, fs |-> 1]>>
  /\ links = {2}
  /\ entries = <<DirEntryNew(RootNode, NoEntry, <<>>)>>
  /\ children = <<{}>>
  /\ destroyed = {}
  /\ evicted = {}
  /\ held = {}
  /\ pc = [t \in Threads |-> "idle"]
  /\ op = [t \in Threads |-> "create_entry"]
  /\ dir = [t \in Threads |-> NoEntry]
  /\ name = [t \in Threads |-> <<>>]
  /\ child = [t \in Threads |-> NoEntry]
  /\ cr = [t \in Threads |-> "Created"]
  /\ ret = [t \in Threads |-> NoRet]
  /\ log = [t \in Threads |-> <<>>]
  /\ calls = 0
  /\ panicked = FALSE
  /\ MountInit

SpecWarm == InitWarm /\ [][Next]_vars

\* One thread, with every operation and every kind of name as input.
InitSeq ==
  /\ nodes = <<[isDir |-> TRUE, from |-> NoNode, name |-> <<>>, fs |-> 1]>>
  /\ links = {}
  /\ entries = <<DirEntryNew(RootNode, NoEntry, <<>>)>>
  /\ children = <<{}>>
  /\ destroyed = {}
  /\ evicted = {}
  /\ held = {}
  /\ pc = [t \in Threads |-> IF t = "t1" THEN "idle" ELSE "off"]
  /\ op = [t \in Threads |-> "create_entry"]
  /\ dir = [t \in Threads |-> NoEntry]
  /\ name = [t \in Threads |-> <<>>]
  /\ child = [t \in Threads |-> NoEntry]
  /\ cr = [t \in Threads |-> "Created"]
  /\ ret = [t \in Threads |-> NoRet]
  /\ log = [t \in Threads |-> <<>>]
  /\ calls = 0
  /\ panicked = FALSE
  /\ MountInit

NextSeq ==
  \/ \E t \in Threads : StartAny(t)
  \/ \E t \in Threads : Slow(t)
  \/ \E t \in Threads : Evict(t)
  \/ \E t \in Threads : Retry(t)
  \/ \E t \in Threads : Finish(t)
  \/ \E e \in held : DropHeld(e)
  \/ \E e \in EntryIds : Destroy(e)
  \/ \E m \in links : ExternalRemove(m)

SpecSeq == InitSeq /\ [][NextSeq]_vars

\* --------------------------------------------- mounting, from the outside
RECURSIVE SumMountCount(_)
SumMountCount(k) == IF k = 0 THEN 0 ELSE entries[k].mount_count + SumMountCount(k - 1)

\* A filesystem is mounted on an entry the namespace holds.
ExternalMount(e) ==
  /\ UNCHANGED <<mvars, tvars, lk>>
  /\ ~panicked /\ e \in {RootEntry} \cup held
  /\ SumMountCount(Len(entries)) < MaxMountCount
  /\ entries' = [entries EXCEPT ![e].mount_count = @ + 1]
  /\ UNCHANGED <<nodes, links, children, destroyed, evicted, held,
                 pc, op, dir, name, child, cr, ret, log, calls, panicked>>

\* A filesystem mounted on an entry is unmounted.
ExternalUnmount(e) ==
  /\ UNCHANGED <<mvars, tvars, lk>>
  /\ ~panicked /\ e \in EntryIds /\ entries[e].mount_count > 0
  /\ entries' = [entries EXCEPT ![e].mount_count = @ - 1]
  /\ UNCHANGED <<nodes, links, children, destroyed, evicted, held,
                 pc, op, dir, name, child, cr, ret, log, calls, panicked>>

\* One thread making calls while filesystems are mounted and unmounted.
NextExt ==
  \/ \E t \in Threads : Start(t)
  \/ \E t \in Threads : Slow(t)
  \/ \E t \in Threads : Evict(t)
  \/ \E t \in Threads : Retry(t)
  \/ \E t \in Threads : Finish(t)
  \/ \E e \in held : DropHeld(e)
  \/ \E e \in EntryIds : Destroy(e)
  \/ \E m \in links : ExternalRemove(m)
  \/ \E e \in EntryIds : ExternalMount(e)
  \/ \E e \in EntryIds : ExternalUnmount(e)

SpecExt == InitSeq /\ [][NextExt]_vars

\* ------------------------------------------------------------ mount actions
InConstruction == {t \in Threads : mt[t].pc = "construct"}

\* Mount::New(what, flags) up to the draw of the id: the Bind case returns a
\* null handle; the Fs case enters new_with_root, which asserts on the flags,
\* locks the kernel of the root's filesystem (asserting it is there) and takes
\* the next mount id.
MountNew(t) ==
  /\ ~panicked /\ mt[t].pc = "idle"
  /\ Len(mounts) + Cardinality(InConstruction) < MaxMounts
  /\ \E what \in WhatToMount, flags \in MountFlagInputs :
       IF what.type = "Bind"
         THEN /\ mt' = [mt EXCEPT ![t] = [MtIdle EXCEPT !.pc = "made", !.what = what,
                                                        !.flags = flags,
                                                        !.handle = Mount_New_bind(what)]]
              /\ UNCHANGED <<next_mount_id_, panicked>>
       ELSE IF ~flags_assert(flags) \/ ~kernel_alive
         THEN /\ mt' = [mt EXCEPT ![t] = [MtIdle EXCEPT !.pc = "aborted", !.what = what,
                                                        !.flags = flags]]
              /\ panicked' = TRUE
              /\ UNCHANGED next_mount_id_
       ELSE /\ mt' = [mt EXCEPT ![t] = [pc |-> "construct", what |-> what, flags |-> flags,
                                        root |-> Mount_New_root(what), id |-> next_mount_id_,
                                        seen |-> Len(mounts), handle |-> NoMount]]
            /\ next_mount_id_' = next_mount_id_ + 1
            /\ UNCHANGED panicked
  /\ UNCHANGED <<mounts, kernel_alive, mq>>
  /\ UNCHANGED <<dvars, anon, lk, tvars>>

\* new Mount(id, flags, root, fs): the Mount comes into being.
MountConstruct(t) ==
  /\ ~panicked /\ mt[t].pc = "construct"
  /\ mounts' = Append(mounts, [seen |-> mt[t].seen] @@
                        Mount_ctor(mt[t].id, mt[t].flags, mt[t].root, FsOf(mt[t].root)))
  /\ mt' = [mt EXCEPT ![t].pc = "made", ![t].handle = Len(mounts) + 1]
  /\ UNCHANGED <<next_mount_id_, kernel_alive, mq, panicked>>
  /\ UNCHANGED <<dvars, anon, lk, tvars>>

\* The caller has its handle.
MountReturn(t) ==
  /\ ~panicked /\ mt[t].pc = "made"
  /\ mt' = [mt EXCEPT ![t] = MtIdle]
  /\ UNCHANGED <<mounts, next_mount_id_, kernel_alive, mq, panicked>>
  /\ UNCHANGED <<dvars, anon, lk, tvars>>

QueryFlags(h) ==
  /\ ~panicked
  /\ mq' = [NoQuery EXCEPT !.op = "flags", !.arg = h, !.flags = MountInfo_flags(h)]
  /\ UNCHANGED <<mounts, next_mount_id_, kernel_alive, mt, panicked>>
  /\ UNCHANGED <<dvars, anon, lk, tvars>>

QueryReadonly(h) ==
  /\ ~panicked
  /\ mq' = [NoQuery EXCEPT !.op = "check_readonly_filesystem", !.arg = h,
                           !.err = check_readonly_filesystem(h)]
  /\ UNCHANGED <<mounts, next_mount_id_, kernel_alive, mt, panicked>>
  /\ UNCHANGED <<dvars, anon, lk, tvars>>

QueryRoot(m) ==
  /\ ~panicked
  /\ mq' = [NoQuery EXCEPT !.op = "root", !.arg = m, !.mount = Mount_root(m).mount,
                           !.entry = Mount_root(m).entry]
  /\ UNCHANGED <<mounts, next_mount_id_, kernel_alive, mt, panicked>>
  /\ UNCHANGED <<dvars, anon, lk, tvars>>

QueryMountpoint(m) ==
  /\ ~panicked
  /\ LET R == Mount_mountpoint(m)
     IN  /\ mq' = [NoQuery EXCEPT !.op = "mountpoint", !.arg = m, !.err = R.kind,
                                  !.mount = R.mount, !.entry = R.entry]
         /\ panicked' = (R.kind = "abort")
  /\ UNCHANGED <<mounts, next_mount_id_, kernel_alive, mt>>
  /\ UNCHANGED <<dvars, anon, lk, tvars>>

\* The last strong reference to the Kernel goes away.
KernelRelease ==
  /\ ~panicked /\ kernel_alive
  /\ kernel_alive' = FALSE
  /\ UNCHANGED <<mounts, next_mount_id_, mt, mq, panicked>>
  /\ UNCHANGED <<dvars, anon, lk, tvars>>

\* Two filesystems, each with its root entry; no directory operation runs.
InitMount ==
  /\ nodes = <<[isDir |-> TRUE, from |-> NoNode, name |-> <<>>, fs |-> 1],
               [isDir |-> TRUE, from |-> NoNode, name |-> <<>>, fs |-> 2]>>
  /\ links = {}
  /\ entries = <<DirEntryNew(1, NoEntry, <<>>), DirEntryNew(2, NoEntry, <<>>)>>
  /\ children = <<{}, {}>>
  /\ destroyed = {}
  /\ evicted = {}
  /\ held = {2}
  /\ pc = [t \in Threads |-> "off"]
  /\ op = [t \in Threads |-> "create_entry"]
  /\ dir = [t \in Threads |-> NoEntry]
  /\ name = [t \in Threads |-> <<>>]
  /\ child = [t \in Threads |-> NoEntry]
  /\ cr = [t \in Threads |-> "Created"]
  /\ ret = [t \in Threads |-> NoRet]
  /\ log = [t \in Threads |-> <<>>]
  /\ calls = 0
  /\ panicked = FALSE
  /\ MountInit

NextMount ==
  \/ \E t \in Threads : MountNew(t)
  \/ \E t \in Threads : MountConstruct(t)
  \/ \E t \in Threads : MountReturn(t)
  \/ \E h \in MountInfos : QueryFlags(h)
  \/ \E h \in MountInfos : QueryReadonly(h)
  \/ \E m \in MountIds : QueryRoot(m)
  \/ \E m \in MountIds : QueryMountpoint(m)
  \/ KernelRelease

SpecMount == InitMount /\ [][NextMount]_vars

\* ---------------------------------------------------------------- anon_fs
\* What set() does to a cell that already holds a value is not fixed by the
\* code shown, and the unsynchronised accesses race: every outcome is allowed.
OnceSetOutcomes == {"overwrite", "keep", "abort"}

\* anon_fs: the test of kernel->anon_fs_.is_initialized().
AnonCheck(t) ==
  /\ ~panicked /\ anon.th[t].pc = "idle" /\ anon.calls < MaxAnonCalls
  /\ anon' = [anon EXCEPT !.calls = @ + 1,
                          !.th[t].pc = IF anon.cell # NoFs THEN "get" ELSE "construct"]
  /\ UNCHANGED <<dvars, panicked, mounts, next_mount_id_, kernel_alive, mt, mq, lk, tvars>>

\* new AnonFs() and FileSystem::New(kernel, ...): a new FileSystem instance.
AnonConstruct(t) ==
  /\ ~panicked /\ anon.th[t].pc = "construct"
  /\ anon' = [anon EXCEPT !.made = @ + 1, !.th[t] = [pc |-> "set", fs |-> anon.made + 1]]
  /\ UNCHANGED <<dvars, panicked, mounts, next_mount_id_, kernel_alive, mt, mq, lk, tvars>>

\* kernel->anon_fs_.set(...).
AnonSet(t) ==
  /\ ~panicked /\ anon.th[t].pc = "set"
  /\ \E o \in OnceSetOutcomes :
       IF anon.cell = NoFs \/ o = "overwrite"
         THEN /\ anon' = [anon EXCEPT !.cell = anon.th[t].fs, !.th[t].pc = "get"]
              /\ UNCHANGED panicked
       ELSE IF o = "keep"
         THEN /\ anon' = [anon EXCEPT !.th[t].pc = "get"]
              /\ UNCHANGED panicked
       ELSE /\ anon' = [anon EXCEPT !.th[t].pc = "aborted"]
            /\ panicked' = TRUE
  /\ UNCHANGED <<dvars, mounts, next_mount_id_, kernel_alive, mt, mq, lk, tvars>>

\* return kernel->anon_fs_.get().
AnonGet(t) ==
  /\ ~panicked /\ anon.th[t].pc = "get"
  /\ anon' = [anon EXCEPT !.th[t] = [pc |-> "returned", fs |-> anon.cell],
                          !.rets = @ \cup {anon.cell}]
  /\ UNCHANGED <<dvars, panicked, mounts, next_mount_id_, kernel_alive, mt, mq, lk, tvars>>

\* The caller has its FileSystemHandle.
AnonReturn(t) ==
  /\ ~panicked /\ anon.th[t].pc = "returned"
  /\ anon' = [anon EXCEPT !.th[t] = AnonIdle]
  /\ UNCHANGED <<dvars, panicked, mounts, next_mount_id_, kernel_alive, mt, mq, lk, tvars>>

NextAnon ==
  \/ \E t \in Threads : AnonCheck(t)
  \/ \E t \in Threads : AnonConstruct(t)
  \/ \E t \in Threads : AnonSet(t)
  \/ \E t \in Threads : AnonGet(t)
  \/ \E t \in Threads : AnonReturn(t)

SpecAnon == InitMount /\ [][NextAnon]_vars

\* ------------------------------------------------------------------ locking
\* The same operations with the two lock domains of an entry made explicit:
\* the write lock of its children map (lock_children, internal_remove_child,
\* the destructor) and its state lock, and a rename that locks the children
\* maps of two parents.

\* Mutant: the write lock is granted whoever holds it.
can_lock_write_always(d) == TRUE

\* RwLock::Write on the children map of d: nobody else is inside.
can_lock_write(d) == lk.w[d] = {} /\ lk.d[d] = {}

\* RwLock::Write on the state of e.
can_lock_state(e) == lk.s[e] = {}

\* Mutant: the two parents are locked in the order of the arguments.
rename_lock_order_as_given(p1, p2) == IF p1 = p2 THEN <<p1>> ELSE <<p1, p2>>

\* The order in which a rename locks the children maps of its two parents:
\* one total order over the entries, the same for every caller.
rename_lock_order(p1, p2) ==
  IF p1 = p2 THEN <<p1>> ELSE IF p1 < p2 THEN <<p1, p2>> ELSE <<p2, p1>>

RenameNames == {NameA, NameB}

RECURSIVE IsAncestor(_, _)
\* a is e or one of the entries on e's parent chain.
IsAncestor(a, e) ==
  IF e = NoEntry THEN FALSE
  ELSE IF a = e THEN TRUE
  ELSE IsAncestor(a, entries[e].parent)

\* The directory "a" is already cached under the root and held from outside.
InitLock ==
  /\ nodes = <<[isDir |-> TRUE, from |-> NoNode, name |-> <<>>, fs |-> 1],
               [isDir |-> TRUE, from |-> RootNode, name |-> NameA, fs |-> 1]>>
  /\ links = {2}
  /\ entries = <<DirEntryNew(RootNode, NoEntry, <<>>), DirEntryNew(2, RootEntry, NameA)>>
  /\ children = <<{2}, {}>>
  /\ destroyed = {}
  /\ evicted = {}
  /\ held = {2}
  /\ pc = [t \in Threads |-> "idle"]
  /\ op = [t \in Threads |-> "create_entry"]
  /\ dir = [t \in Threads |-> NoEntry]
  /\ name = [t \in Threads |-> <<>>]
  /\ child = [t \in Threads |-> NoEntry]
  /\ cr = [t \in Threads |-> "Created"]
  /\ ret = [t \in Threads |-> NoRet]
  /\ log = [t \in Threads |-> <<>>]
  /\ calls = 0
  /\ panicked = FALSE
  /\ MountInit

\* The checks and the read-locked fast path; the read lock is granted only
\* while no writer is inside.
LkStart(t) ==
  /\ lk.rn[t].pc = "idle"
  /\ StartWithBody(t, MainOps, MainNames)
  /\ (pc'[t] = "lockw" \/ child'[t] # NoEntry)
       => (lk.w[dir'[t]] = {} /\ lk.d[dir'[t]] = {})
  /\ UNCHANGED lk

\* lock_children() / the lock taken inside internal_remove_child.
LkAcquire(t) ==
  /\ ~panicked /\ pc[t] \in {"lockw", "evict", "relockw"}
  /\ t \notin lk.w[dir[t]]
  /\ can_lock_write(dir[t])
  /\ lk' = [lk EXCEPT !.w[dir[t]] = @ \cup {t}]
  /\ UNCHANGED <<dvars, panicked, mvars, tvars>>

LkSlow(t) ==
  /\ pc[t] = "lockw" /\ t \in lk.w[dir[t]]
  /\ SlowBody(t)
  /\ lk' = [lk EXCEPT !.w[dir[t]] = @ \ {t}]

LkEvict(t) ==
  /\ pc[t] = "evict" /\ t \in lk.w[dir[t]]
  /\ EvictBody(t)
  /\ lk' = [lk EXCEPT !.w[dir[t]] = @ \ {t}]

LkRetry(t) ==
  /\ pc[t] = "relockw" /\ t \in lk.w[dir[t]]
  /\ RetryBody(t)
  /\ lk' = [lk EXCEPT !.w[dir[t]] = @ \ {t}]

LkFinish(t) == FinishBody(t) /\ UNCHANGED lk
LkDropHeld(e) == DropHeldBody(e) /\ UNCHANGED lk
LkExternalRemove(m) == ExternalRemoveBody(m) /\ UNCHANGED lk

\* ~DirEntry takes the write lock of its parent's children map ...
LkDestroyAcquire(e) ==
  /\ ~panicked /\ Dying(e)
  /\ entries[e].parent # NoEntry
  /\ e \notin lk.d[entries[e].parent]
  /\ can_lock_write(entries[e].parent)
  /\ lk' = [lk EXCEPT !.d[entries[e].parent] = @ \cup {e}]
  /\ UNCHANGED <<dvars, panicked, mvars, tvars>>

\* ... removes itself and unlocks.
LkDestroy(e) ==
  /\ e \in EntryIds
  /\ IF entries[e].parent = NoEntry THEN TRUE ELSE e \in lk.d[entries[e].parent]
  /\ DestroyBody(e)
  /\ lk' = [lk EXCEPT !.d = [x \in LockIds |-> @[x] \ {e}]]

\* A thread starts a rename of (p1, n1) to (p2, n2) on two directories it holds.
RnStart(t) ==
  /\ ~panicked /\ pc[t] = "idle" /\ lk.rn[t].pc = "idle"
  /\ calls < MaxCalls
  /\ \E p1, p2 \in {RootEntry} \cup held, n1, n2 \in RenameNames :
       /\ is_dir(p1) /\ is_dir(p2)
       /\ lk' = [lk EXCEPT !.rn[t] = [RnIdle EXCEPT !.pc = "locking",
                                        !.p1 = p1, !.p2 = p2, !.n1 = n1, !.n2 = n2,
                                        !.locks = rename_lock_order(p1, p2)]]
  /\ calls' = calls + 1
  /\ UNCHANGED <<nodes, links, entries, children, destroyed, evicted, held,
                 pc, op, dir, name, child, cr, ret, log, panicked, mvars, tvars>>

\* It takes the next children lock of its order.
RnLockChildren(t) ==
  LET r == lk.rn[t]
      d == r.locks[r.n + 1]
  IN  /\ ~panicked /\ r.pc = "locking"
      /\ can_lock_write(d)
      /\ lk' = [lk EXCEPT !.w[d] = @ \cup {t},
                          !.rn[t].n = r.n + 1,
                          !.rn[t].pc = IF r.n + 1 = Len(r.locks) THEN "locked" ELSE "locking"]
      /\ UNCHANGED <<dvars, panicked, mvars, tvars>>

\* With both maps locked it looks the source up and checks the move.
RnLookup(t) ==
  LET r == lk.rn[t]
      s == fast_lookup(r.p1, r.n1)
      ok == /\ s # NoEntry
            /\ entries[s].node \in links
            /\ ~IsAncestor(s, r.p2)
            /\ ~(r.p1 = r.p2 /\ r.n1 = r.n2)
            /\ Find(r.p2, r.n2) = {}
            /\ BackingLookup(entries[r.p2].node, r.n2) = {}
  IN  /\ ~panicked /\ r.pc = "locked"
      /\ lk' = IF ok
                 THEN [lk EXCEPT !.rn[t].pc = "state", !.rn[t].src = s,
                                 !.rn[t].st = IF r.p1 = r.p2 THEN <<r.p1, s>>
                                              ELSE <<r.p1, r.p2, s>>]
                 ELSE [lk EXCEPT !.rn[t].pc = "unlock"]
      /\ UNCHANGED <<dvars, panicked, mvars, tvars>>

\* It takes the state lock of the next entry, holding no other state lock.
RnStateLock(t) ==
  LET r == lk.rn[t]
      e == r.st[r.k + 1]
  IN  /\ ~panicked /\ r.pc = "state"
      /\ can_lock_state(e)
      /\ lk' = [lk EXCEPT !.s[e] = @ \cup {t}, !.rn[t].pc = "stheld"]
      /\ UNCHANGED <<dvars, panicked, mvars, tvars>>

\* The state section: the source gets its new parent and name and moves from
\* the one children map to the other; then the state lock is released.
RnStateUnlock(t) ==
  LET r == lk.rn[t]
      e == r.st[r.k + 1]
      m == entries[r.src].node
  IN  /\ ~panicked /\ r.pc = "stheld"
      /\ IF e = r.src
           THEN /\ entries' = [entries EXCEPT ![e].parent = r.p2, ![e].name = r.n2]
                /\ nodes' = [nodes EXCEPT ![m].from = entries[r.p2].node, ![m].name = r.n2]
                /\ children' = [d \in DOMAIN children |->
                                  IF d = r.p2 THEN (children[d] \ {e}) \cup {e}
                                  ELSE IF d = r.p1 THEN children[d] \ {e}
                                  ELSE children[d]]
           ELSE UNCHANGED <<entries, nodes, children>>
      /\ lk' = [lk EXCEPT !.s[e] = @ \ {t},
                          !.rn[t].k = r.k + 1,
                          !.rn[t].pc = IF r.k + 1 = Len(r.st) THEN "unlock" ELSE "state"]
      /\ UNCHANGED <<links, destroyed, evicted, held, pc, op, dir, name, child, cr,
                     ret, log, calls, panicked, mvars, tvars>>

\* Both children locks are released and the rename returns.
RnUnlock(t) ==
  LET r == lk.rn[t]
  IN  /\ ~panicked /\ r.pc = "unlock"
      /\ lk' = [lk EXCEPT !.w = [x \in LockIds |-> @[x] \ {t}], !.rn[t] = RnIdle]
      /\ UNCHANGED <<dvars, panicked, mvars, tvars>>

NextLock ==
  \/ \E t \in Threads : LkStart(t)
  \/ \E t \in Threads : LkAcquire(t)
  \/ \E t \in Threads : LkSlow(t)
  \/ \E t \in Threads : LkEvict(t)
  \/ \E t \in Threads : LkRetry(t)
  \/ \E t \in Threads : LkFinish(t)
  \/ \E e \in held : LkDropHeld(e)
  \/ \E e \in EntryIds : LkDestroyAcquire(e)
  \/ \E e \in EntryIds : LkDestroy(e)
  \/ \E m \in links : LkExternalRemove(m)
  \/ \E t \in Threads : RnStart(t)
  \/ \E t \in Threads : RnLockChildren(t)
  \/ \E t \in Threads : RnLookup(t)
  \/ \E t \in Threads : RnStateLock(t)
  \/ \E t \in Threads : RnStateUnlock(t)
  \/ \E t \in Threads : RnUnlock(t)

SpecLock == InitLock /\ [][NextLock]_vars

\* ----------------------------------------------------------- run_in_state
\* TaskMutableState::is_blocked: the run state is not Running.
is_blocked(st) == st # "Running"

\* Mutant: the pending signal is honoured only when the task is ptrace-listening.
interrupted_if_listening(sig, listen) == sig /\ listen

\* state->is_any_signal_pending() && !state->is_ptrace_listening()
interrupted(sig, listen) == sig /\ ~listen

\* Mutant: the run state is left as it was when the callback is called.
set_run_state_noop(old, new) == old

\* TaskMutableState::set_run_state
set_run_state(old, new) == new

\* The local run_state after ktl::move(run_state) was handed to set_run_state:
\* unchanged, or a moved-from value that equals no run state.
MovedFrom(rs) == {rs, "MovedFrom"}

\* What the callback returns.
CallbackResults == {[kind |-> "ok", err |-> "none"], [kind |-> "err", err |-> "EIO"]}

InCallback == Len(cur.frames) > 0 /\ cur.frames[Len(cur.frames)].pc = "callback"

\* run_in_state up to the call of the callback: the two assertions, the EINTR
\* return and set_run_state, under the task's write lock.  It is called by the
\* task's own thread: from outside any callback or from within the innermost.
RunInStateEnter ==
  /\ ~panicked /\ cur.calls < MaxRunCalls
  /\ cur.frames = <<>> \/ InCallback
  /\ \E rs \in RunStates, sig \in BOOLEAN, listen \in BOOLEAN :
       \E moved \in MovedFrom(rs) :
         IF rs = "Running" \/ is_blocked(cur.run_state)
           THEN /\ panicked' = TRUE
                /\ cur' = [cur EXCEPT !.calls = @ + 1]
         ELSE IF interrupted(sig, listen)
           THEN /\ cur' = [cur EXCEPT !.calls = @ + 1,
                             !.last = [kind |-> "err", err |-> "EINTR", ran |-> FALSE,
                                       req |-> rs, sig |-> sig, listen |-> listen,
                                       state |-> cur.run_state]]
                /\ UNCHANGED panicked
         ELSE /\ cur' = [cur EXCEPT !.calls = @ + 1,
                           !.run_state = set_run_state(@, rs),
                           !.frames = Append(@, [pc |-> "callback", req |-> rs,
                                                 arg |-> moved, from |-> cur.run_state,
                                                 sig |-> sig, listen |-> listen,
                                                 result |-> [kind |-> "none", err |-> "none"]])]
              /\ UNCHANGED panicked
  /\ UNCHANGED <<dvars, mvars, lk, art>>

\* The callback of the innermost activation returns.
RunInStateCallback ==
  /\ ~panicked /\ InCallback
  /\ \E r \in CallbackResults :
       cur' = [cur EXCEPT !.frames[Len(cur.frames)].pc = "restore",
                          !.frames[Len(cur.frames)].result = r]
  /\ UNCHANGED <<dvars, panicked, mvars, lk, art>>

\* The second locked section: the assertion that the run state is still the
\* requested one, the return to Running and the return of the result.
RunInStateRestore ==
  /\ ~panicked /\ Len(cur.frames) > 0
  /\ LET f == cur.frames[Len(cur.frames)]
     IN  /\ f.pc = "restore"
         /\ IF cur.run_state # f.arg
              THEN /\ panicked' = TRUE
                   /\ UNCHANGED cur
              ELSE /\ cur' = [cur EXCEPT !.run_state = set_run_state(@, "Running"),
                                !.frames = SubSeq(@, 1, Len(@) - 1),
                                !.last = [kind |-> f.result.kind, err |-> f.result.err,
                                          ran |-> TRUE, req |-> f.req, sig |-> f.sig,
                                          listen |-> f.listen,
                                          state |-> set_run_state(cur.run_state, "Running")]]
                   /\ UNCHANGED panicked
  /\ UNCHANGED <<dvars, mvars, lk, art>>

\* The caller looks at what it got and goes on.
RunInStateForget ==
  /\ ~panicked /\ cur.last # NoRun
  /\ cur' = [cur EXCEPT !.last = NoRun]
  /\ UNCHANGED <<dvars, panicked, mvars, lk, art>>

NextTask ==
  \/ RunInStateEnter
  \/ RunInStateCallback
  \/ RunInStateRestore
  \/ RunInStateForget

SpecTask == InitMount /\ [][NextTask]_vars

\* ------------------------------------------------------ AutoReleasableTask
\* Mutant: the source of a move keeps its task.
moved_from_keeps(k) == k

\* other.task_ = ktl::nullopt after a move.
moved_from(k) == NoTask

\* What happens to the task a wrapper holds when another is move-assigned over
\* it: AutoReleasableTask::operator= does not call release(); whether
\* CurrentTask's own move assignment does is not visible.
AssignOverOutcomes == {"lost", "released"}

\* ~AutoReleasableTask on an empty optional calls release() through task_->,
\* which has no object behind it: nothing visible happens, the kernel aborts,
\* or the call acts on the task the storage held before.
EmptyReleaseOutcomes == {"nothing", "abort", "stale"}

ArtAlive == {i \in 1..Len(art.w) : art.w[i].alive}

\* AutoReleasableTask::From(CurrentTask): a wrapper around a new task.
ArtFrom ==
  /\ ~panicked /\ art.ntasks < MaxTasks /\ Len(art.w) < MaxWrappers
  /\ art' = [art EXCEPT !.ntasks = @ + 1,
                        !.w = Append(@, [task |-> art.ntasks + 1, was |-> NoTask,
                                         alive |-> TRUE])]
  /\ UNCHANGED <<dvars, panicked, mvars, lk, cur>>

\* AutoReleasableTask(AutoReleasableTask&& other)
ArtMoveConstruct(src) ==
  /\ ~panicked /\ src \in ArtAlive /\ Len(art.w) < MaxWrappers
  /\ art' = [art EXCEPT !.w = Append([@ EXCEPT ![src].task = moved_from(@),
                                                ![src].was = art.w[src].task],
                                      [task |-> art.w[src].task, was |-> NoTask,
                                       alive |-> TRUE])]
  /\ UNCHANGED <<dvars, panicked, mvars, lk, cur>>

\* operator=(AutoReleasableTask&& other), other possibly *this.
ArtMoveAssign(dst, src) ==
  /\ ~panicked /\ dst \in ArtAlive /\ src \in ArtAlive
  /\ \E o \in AssignOverOutcomes :
       LET prev == art.w[dst].task
           over == prev # NoTask /\ art.w[src].task # NoTask /\ dst # src
           w1 == [art.w EXCEPT ![dst].task = art.w[src].task]
           w2 == [w1 EXCEPT ![src].task = moved_from(@),
                            ![src].was = art.w[src].task]
       IN  art' = [art EXCEPT !.w = w2,
                              !.released = IF over /\ o = "released"
                                             THEN [@ EXCEPT ![prev] = @ + 1] ELSE @]
  /\ UNCHANGED <<dvars, panicked, mvars, lk, cur>>

\* ~AutoReleasableTask: task_->release(), whether or not task_ has a value.
ArtDestroy(i) ==
  /\ ~panicked /\ i \in ArtAlive
  /\ LET k == art.w[i].task
         gone == [art.w EXCEPT ![i].alive = FALSE]
     IN  IF k # NoTask
           THEN /\ art' = [art EXCEPT !.w = gone, !.released[k] = @ + 1]
                /\ UNCHANGED panicked
           ELSE \E o \in EmptyReleaseOutcomes :
                  /\ art' = [art EXCEPT !.w = gone, !.empty_calls = @ + 1,
                               !.released = IF o = "stale" /\ art.w[i].was # NoTask
                                              THEN [@ EXCEPT ![art.w[i].was] = @ + 1]
                                              ELSE @]
                  /\ panicked' = (o = "abort")
  /\ UNCHANGED <<dvars, mvars, lk, cur>>

NextArt ==
  \/ ArtFrom
  \/ \E i \in 1..Len(art.w) : ArtMoveConstruct(i)
  \/ \E i, j \in 1..Len(art.w) : ArtMoveAssign(i, j)
  \/ \E i \in 1..Len(art.w) : ArtDestroy(i)

SpecArt == InitMount /\ [][NextArt]_vars

\* ------------------------------------------------------------------ claims
Count(seq, x) == Cardinality({i \in 1..Len(seq) : seq[i] = x})
Has(seq, x) == \E i \in 1..Len(seq) : seq[i] = x
DoneOk(t) == pc[t] = "done" /\ ret[t].kind = "ok"
SameSlot(t, u) == dir[t] = dir[u] /\ name[t] = name[u]

\* C1: callers of get_or_create_child on the same (directory, name) whose
\* results have not been evicted all hold the same DirEntry; and when the two
\* calls are the only ones ever made (the slot was vacant in the cache and in
\* the backing store), create_fn was invoked exactly once in total and exactly
\* one caller is told the entry did not exist.
C1_SingleCreation ==
  \A t, u \in Threads :
    (t # u /\ DoneOk(t) /\ DoneOk(u) /\ SameSlot(t, u)
       /\ ret[t].entry \notin evicted /\ ret[u].entry \notin evicted)
    => /\ ret[t].entry = ret[u].entry
       /\ calls = 2 =>
            /\ Count(log[t], "create_fn") + Count(log[u], "create_fn") = 1
            /\ ret[t].exists # ret[u].exists

\* Both callers missed on the fast path; one created the entry, the other found
\* it when it looked again under the write lock.
C1_Witness ==
  \E t, u \in Threads :
    /\ t # u /\ DoneOk(t) /\ DoneOk(u) /\ SameSlot(t, u) /\ calls = 2
    /\ ret[t].entry = ret[u].entry /\ ret[t].entry \notin evicted
    /\ Has(log[t], "create_fn")
    /\ log[u] = <<"accessed", "created", "purge", "revalidate_true">>

\* The entries the caller side still keeps for the slot of t's call, never
\* evicted: with one thread, they were cached before the call of t began.
KeptFor(t) ==
  {e \in held : entries[e].parent = dir[t] /\ entries[e].name = name[t] /\ e \notin evicted}

\* C2: while the entry made by create_entry is kept, a component_lookup of the
\* same name returns an entry naming the same node, and a second create_entry
\* returns EEXIST without invoking create_fn.
C2_Uniqueness ==
  \A t \in Threads : \A e \in KeptFor(t) :
    pc[t] = "done" =>
      /\ op[t] = "component_lookup" =>
           /\ ret[t].kind = "ok"
           /\ entries[ret[t].entry].node = entries[e].node
      /\ op[t] = "create_entry" =>
           /\ wrap_result(op[t], ret[t]) = ErrRet("EEXIST")
           /\ ~Has(log[t], "create_fn")

C2_Witness ==
  \E t \in Threads : \E e \in KeptFor(t) :
    /\ pc[t] = "done" /\ op[t] = "create_entry"
    /\ wrap_result(op[t], ret[t]) = ErrRet("EEXIST")
    /\ ~nodes[entries[e].node].isDir

\* C3: on a directory with no children, the first get_or_create_entry returns
\* a new entry with existed = false after exactly one create_fn call; a second
\* call made while the first result is kept returns that entry with
\* existed = true and does not invoke create_fn.
C3_Idempotent ==
  \A t \in Threads :
    (pc[t] = "done" /\ op[t] = "get_or_create_entry") =>
      /\ (calls = 1 /\ ret[t].kind = "ok") =>
           /\ ret[t].exists = FALSE
           /\ Count(log[t], "create_fn") = 1
      /\ \A e \in KeptFor(t) :
           /\ ret[t] = OkRet(e, TRUE)
           /\ ~Has(log[t], "create_fn")

C3_Witness ==
  \E t \in Threads : \E e \in KeptFor(t) :
    /\ pc[t] = "done" /\ op[t] = "get_or_create_entry" /\ calls = 2
    /\ ret[t] = OkRet(e, TRUE)

\* C4 as stated: after revalidate answers false, the call returns a node other
\* than the evicted entry's node, and create_fn ran exactly once.
C4_AsClaimed ==
  \A t \in Threads :
    (pc[t] = "done" /\ Has(log[t], "evict")) =>
      /\ entries[ret[t].entry].node # entries[child[t]].node
      /\ Count(log[t], "create_fn") = 1

\* C4, amended: after revalidate answers false the evicted entry is out of its
\* parent's children map for good and the retry returns a DirEntry other than
\* the evicted one; create_fn runs at most once, exactly when the retry reports
\* existed = false, and then the node is a new one.
C4_Eviction ==
  \A t \in Threads :
    /\ (pc[t] \in {"relockw", "done"} /\ Has(log[t], "evict")) =>
         child[t] \notin children[dir[t]]
    /\ (pc[t] = "done" /\ Has(log[t], "evict")) =>
         /\ ret[t].kind = "ok"
         /\ ret[t].entry # child[t]
         /\ ret[t].entry \in children[dir[t]] \/ ret[t].entry \in evicted
         /\ Count(log[t], "create_fn") <= 1
         /\ Count(log[t], "create_fn") = 1 <=> ~ret[t].exists
         /\ ~ret[t].exists => entries[ret[t].entry].node # entries[child[t]].node

C4_Witness ==
  \E t \in Threads :
    /\ pc[t] = "done" /\ Has(log[t], "evict")
    /\ ~ret[t].exists /\ Count(log[t], "create_fn") = 1
    /\ entries[ret[t].entry].node # entries[child[t]].node

\* C5: when revalidate fails with e, the call returns exactly e.
C5_RevalidateErrorReturned ==
  \A t \in Threads :
    Has(log[t], "revalidate_err") => (pc[t] = "done" /\ ret[t] = ErrRet("EIO"))

\* C6: an entry whose last strong holder is gone is never obtained again, and a
\* slow path that finds no upgradable entry for the name does a backing lookup
\* and returns an entry that did not exist before.
C6_NoResurrection ==
  [][ /\ \A e \in EntryIds : ~HasHolder(e) => ~HasHolder(e)'
      /\ \A t \in Threads :
           (pc[t] \in {"lockw", "relockw"} /\ pc'[t] # pc[t] /\ ~panicked'
              /\ Upgrade(FindOne(dir[t], name[t])) = NoEntry
              /\ (pc'[t] = "done" => ret'[t].kind = "ok"))
           => /\ Has(log'[t], "lookup")
              /\ (IF pc'[t] = "done" THEN ret'[t].entry ELSE child'[t]) \notin EntryIds
    ]_vars

\* A call returned a new entry while the dropped one of the same name was still
\* waiting for its destructor.
C6_Witness ==
  \E t \in Threads, e \in EntryIds :
    /\ DoneOk(t) /\ Dying(e)
    /\ entries[e].parent = dir[t] /\ entries[e].name = name[t]
    /\ ret[t].entry # e /\ Has(log[t], "lookup")

\* C7: the children map of a directory holds at most one entry per name, each
\* under the directory that is its parent and none evicted or destroyed; and
\* every live entry that was not evicted is the one its parent's map holds, so
\* that no second live entry of the same (parent, name) is ever cached.
C7_OnePerName ==
  /\ \A d \in EntryIds : \A c \in children[d] :
       /\ entries[c].parent = d /\ c \notin destroyed /\ c \notin evicted
       /\ \A c2 \in children[d] : entries[c2].name = entries[c].name => c2 = c
  /\ \A e \in EntryIds :
       (Live(e) /\ e \notin evicted /\ entries[e].parent # NoEntry)
         => e \in children[entries[e].parent]

\* A live cached entry next to an evicted entry of the same name that is still
\* held.
C7_Witness ==
  \E d \in EntryIds : \E c \in children[d] : \E x \in evicted :
    /\ Live(c) /\ Live(x) /\ x # c
    /\ entries[x].parent = d /\ entries[x].name = entries[c].name

\* C8: a directory node is named by at most one live DirEntry.
C8_OneEntryPerDirectory ==
  \A e1, e2 \in EntryIds :
    (Live(e1) /\ Live(e2) /\ entries[e1].node = entries[e2].node
       /\ nodes[entries[e1].node].isDir) => e1 = e2

RECURSIVE ChainToRoot(_)
ChainToRoot(e) ==
  \/ e = RootEntry
  \/ /\ entries[e].parent \in 1..(e - 1)
     /\ Live(entries[e].parent)
     /\ ChainToRoot(entries[e].parent)

\* C9: every entry whose destructor has not completed has a parent chain of live
\* entries that ends at the root of its filesystem.
C9_ParentChain ==
  \A e \in EntryIds : e \notin destroyed => ChainToRoot(e)

\* A live entry two levels down whose parent is kept alive by it alone.
C9_Witness ==
  \E e \in EntryIds :
    /\ Live(e) /\ entries[e].parent # NoEntry /\ entries[e].parent # RootEntry
    /\ entries[e].parent \notin held
    /\ \A t \in Threads : dir[t] # entries[e].parent /\ child[t] # entries[e].parent
                           /\ ret[t].entry # entries[e].parent
    /\ e \in children[entries[e].parent]

\* C10: create_entry and get_or_create_entry return EEXIST for "", "." and "..",
\* ENAMETOOLONG for a name of NAME_MAX + 1 bytes and EINVAL for a name of at
\* most NAME_MAX bytes that contains the separator, and in each case nothing
\* was looked up or created.
C10_NameChecks ==
  \A t \in Threads :
    (pc[t] = "done" /\ op[t] # "component_lookup") =>
      /\ name[t] \in {<<>>, <<".">>, <<".", ".">>} =>
           (wrap_result(op[t], ret[t]) = ErrRet("EEXIST") /\ log[t] = <<>>)
      /\ Len(name[t]) = NAME_MAX + 1 =>
           (wrap_result(op[t], ret[t]) = ErrRet("ENAMETOOLONG") /\ log[t] = <<>>)
      /\ (contains(name[t], SEPARATOR) /\ Len(name[t]) <= NAME_MAX) =>
           (wrap_result(op[t], ret[t]) = ErrRet("EINVAL") /\ log[t] = <<>>)

C10_Witness ==
  \E t \in Threads :
    /\ pc[t] = "done" /\ op[t] = "create_entry"
    /\ name[t] = LongName /\ ret[t] = ErrRet("ENAMETOOLONG")
    /\ calls = 2 /\ children[RootEntry] # {}

\* C11: in every reachable state no children map has "", "." or ".." as a key.
C11_NoReservedKeys ==
  \A d \in EntryIds : \A c \in children[d] :
    entries[c].name \notin {<<>>, <<".">>, <<".", ".">>}

\* A create of ".." was refused in a directory that already caches a child.
C11_Witness ==
  \E t \in Threads :
    /\ pc[t] = "done" /\ op[t] \in {"create_entry", "get_or_create_entry"}
    /\ name[t] = <<".", ".">> /\ ret[t] = ErrRet("EEXIST")
    /\ children[dir[t]] # {}

\* C12 as stated: every child operation on an entry whose node is not a
\* directory returns ENOTDIR, without a backing lookup or a create_fn call.
C12_AsClaimed ==
  \A t \in Threads :
    (pc[t] = "done" /\ ~nodes[entries[dir[t]].node].isDir) =>
      (wrap_result(op[t], ret[t]) = ErrRet("ENOTDIR") /\ log[t] = <<>>)

\* C12, amended: a child operation on an entry whose node is not a directory,
\* with a name that passes the name checks, returns ENOTDIR; with any name it
\* returns an error without a backing lookup or a create_fn call; and the
\* children map of such an entry stays empty.
C12_NotDirectory ==
  /\ \A t \in Threads :
       (pc[t] = "done" /\ ~nodes[entries[dir[t]].node].isDir) =>
         /\ ret[t].kind = "err" /\ log[t] = <<>>
         /\ name[t] \in ValidNames => ret[t] = ErrRet("ENOTDIR")
  /\ \A e \in EntryIds : ~nodes[entries[e].node].isDir => children[e] = {}

C12_Witness ==
  \E t \in Threads :
    /\ pc[t] = "done" /\ ~nodes[entries[dir[t]].node].isDir
    /\ op[t] = "get_or_create_entry" /\ name[t] = NameB
    /\ ret[t] = ErrRet("ENOTDIR") /\ log[t] = <<>>

\* C13: check_readonly_filesystem answers EROFS exactly when RDONLY is among
\* the flags of the MountInfo: a detached MountInfo always answers ok, and one
\* attached to a Mount made with RDONLY answers EROFS.
C13_ReadonlyIffRdonly ==
  mq.op = "check_readonly_filesystem" =>
    /\ mq.err \in {"ok", "EROFS"}
    /\ mq.err = "EROFS" <=> (mq.arg # NoMount /\ "RDONLY" \in mounts[mq.arg].flags)
    /\ mq.arg = NoMount => mq.err = "ok"

C13_Witness ==
  /\ mq.op = "check_readonly_filesystem" /\ mq.arg # NoMount
  /\ "RDONLY" \in mounts[mq.arg].flags /\ mq.err = "EROFS"

\* C14: MountInfo::flags answers the flags of the Mount when attached and
\* exactly {NOATIME} when detached, and does not fail.
C14_Flags ==
  mq.op = "flags" =>
    /\ mq.err = "none"
    /\ mq.arg # NoMount => mq.flags = mounts[mq.arg].flags
    /\ mq.arg = NoMount => mq.flags = {"NOATIME"}

C14_Witness ==
  /\ mq.op = "flags" /\ mq.arg = NoMount /\ mq.flags = {"NOATIME"}
  /\ \E m \in MountIds : mounts[m].flags = {"RDONLY"}

\* C15: mountpoint() of a Mount with no recorded mountpoint returns None.
C15_MountpointNone ==
  (mq.op = "mountpoint" /\ mounts[mq.arg].mountpoint = NoMountpoint) =>
    (mq.err = "none" /\ ~panicked)

\* C16: no two Mounts share an id, the ids in use are those the counter has
\* handed out, and a Mount has an id greater than that of every Mount that
\* existed when its construction began; also when constructions overlap.
C16_UniqueMonotonicIds ==
  /\ \A i, j \in MountIds : i # j => mounts[i].id # mounts[j].id
  /\ \A i \in MountIds : \A t \in InConstruction : mounts[i].id # mt[t].id
  /\ \A t, u \in InConstruction : t # u => mt[t].id # mt[u].id
  /\ \A i \in MountIds : mounts[i].id < next_mount_id_
  /\ \A i, j \in MountIds : i <= mounts[j].seen => mounts[i].id < mounts[j].id

\* Two overlapping constructions completed in the reverse order of their ids.
C16_Witness ==
  /\ Len(mounts) = 2
  /\ mounts[1].id = 1 /\ mounts[2].id = 0
  /\ mounts[1].seen = 0 /\ mounts[2].seen = 0

\* C17: no Mount has a STORED_ON_MOUNT bit among its flags; a construction
\* given such flags stops at the assertion and makes no Mount.
C17_FlagsAsserted ==
  /\ \A m \in MountIds : "STORED_ON_MOUNT_BIT" \notin mounts[m].flags
  /\ \A t \in Threads :
       (mt[t].pc # "idle" /\ mt[t].what.type = "Fs"
          /\ "STORED_ON_MOUNT_BIT" \in mt[t].flags)
       => (mt[t].pc = "aborted" /\ panicked /\ mt[t].handle = NoMount)

C17_Witness ==
  \E t \in Threads :
    /\ mt[t].pc = "aborted" /\ panicked /\ kernel_alive
    /\ mt[t].flags = {"RDONLY", "STORED_ON_MOUNT_BIT"}
    /\ Len(mounts) = 1

\* C18: the Mount made by Mount::New for a filesystem has that filesystem's
\* root entry as its root, the filesystem of that root's node as its fs, and
\* the flags given.
C18_NewFromFilesystem ==
  \A t \in Threads :
    (mt[t].pc = "made" /\ mt[t].what.type = "Fs") =>
      /\ mt[t].handle \in MountIds
      /\ LET M == mounts[mt[t].handle]
         IN  /\ entries[M.root].parent = NoEntry
             /\ nodes[entries[M.root].node].fs = mt[t].what.fs
             /\ M.fs = nodes[entries[M.root].node].fs
             /\ M.flags = mt[t].flags

C18_Witness ==
  \E t \in Threads :
    /\ mt[t].pc = "made" /\ mt[t].what = [type |-> "Fs", fs |-> 2]
    /\ mt[t].flags = {"RDONLY"} /\ mt[t].handle = 2
    /\ mounts[2].root = 2 /\ mounts[1].root = 1

\* C19: Mount::root() is the location attached to that very Mount at the
\* Mount's root entry.
C19_Root ==
  mq.op = "root" => (mq.mount = mq.arg /\ mq.entry = mounts[mq.arg].root)

C19_Witness ==
  /\ mq.op = "root" /\ mq.arg = 2 /\ mq.mount = 2
  /\ mq.entry = mounts[2].root /\ mounts[2].root # mounts[1].root

\* C24: a component_lookup that finds the name neither in the cache nor in the
\* backing store returns ENOENT, makes no node and leaves the children map as
\* it was, with no live entry for the name.
C24_LookupEnoent ==
  [][ \A t \in Threads :
        (pc[t] = "lockw" /\ pc'[t] # "lockw" /\ op[t] = "component_lookup"
           /\ Upgrade(FindOne(dir[t], name[t])) = NoEntry
           /\ BackingLookup(entries[dir[t]].node, name[t]) = {}
           /\ ~Has(log'[t], "lookup_err"))
        => /\ pc'[t] = "done" /\ ret'[t] = ErrRet("ENOENT")
           /\ nodes' = nodes /\ links' = links /\ entries' = entries
           /\ children' = children
           /\ \A c \in Find(dir[t], name[t])' : ~Live(c)'
    ]_vars

C24_Witness ==
  \E t \in Threads :
    /\ pc[t] = "done" /\ op[t] = "component_lookup" /\ name[t] = NameB
    /\ ret[t] = ErrRet("ENOENT")
    /\ log[t] = <<"lookup", "create_fn", "create_fn_err">>
    /\ Find(dir[t], NameB) = {} /\ Find(dir[t], NameA) # {}

\* C25: a call that found the name in the children map with an upgradable
\* reference, and returned that entry, reports existed = true after exactly one
\* did_access_dir_entry and with no backing lookup, no create_fn call, no
\* did_create_dir_entry and no purge_old_entries.
C25_CacheHitEffects ==
  \A t \in Threads :
    (DoneOk(t) /\ log[t] # <<>> /\ log[t][1] = "accessed" /\ Has(log[t], "revalidate_true")) =>
      /\ ret[t] = OkRet(child[t], TRUE)
      /\ Count(log[t], "accessed") = 1
      /\ ~Has(log[t], "lookup") /\ ~Has(log[t], "create_fn")
      /\ ~Has(log[t], "created") /\ ~Has(log[t], "purge")

\* C26: a successful call that inserted an entry issued did_create_dir_entry
\* once and then purge_old_entries once; a successful call that inserted
\* nothing issued neither.
C26_CreatedThenPurge ==
  \A t \in Threads :
    DoneOk(t) =>
      IF Has(log[t], "lookup")
        THEN /\ Count(log[t], "created") = 1 /\ Count(log[t], "purge") = 1
             /\ \E i, j \in 1..Len(log[t]) :
                  i < j /\ log[t][i] = "created" /\ log[t][j] = "purge"
        ELSE ~Has(log[t], "created") /\ ~Has(log[t], "purge")

\* C27: when the backing lookup fails with an error other than ENOENT, the call
\* returns that error, create_fn is not invoked after it, and nothing is
\* inserted.
C27_LookupErrorReturned ==
  \A t \in Threads :
    Has(log[t], "lookup_err") =>
      /\ pc[t] = "done" /\ ret[t] = ErrRet("EIO")
      /\ log[t][Len(log[t])] = "lookup_err"

\* C28: when the backing lookup reports ENOENT and create_fn fails with e, the
\* call returns exactly e.
C28_CreateErrorReturned ==
  \A t \in Threads :
    Has(log[t], "create_fn_err") =>
      /\ pc[t] = "done"
      /\ ret[t] = ErrRet(IF op[t] = "component_lookup" THEN "ENOENT" ELSE "EIO")

\* C30: a successful call reports existed = false exactly when the step that
\* completed it invoked create_fn, create_fn made a node, and the returned
\* entry names that node; an entry from the cache or from the backing lookup is
\* reported with existed = true.
C30_ExistedFlag ==
  [][ \A t \in Threads :
        (pc[t] # "done" /\ pc'[t] = "done" /\ ret'[t].kind = "ok") =>
          (ret'[t].exists = FALSE <=>
             /\ Len(nodes') = Len(nodes) + 1
             /\ entries'[ret'[t].entry].node = Len(nodes')
             /\ Count(log'[t], "create_fn") = Count(log[t], "create_fn") + 1)
    ]_vars

\* One caller created the node (existed = false); the other got the same entry
\* from the backing lookup or the cache (existed = true).
C30_Witness ==
  \E t, u \in Threads :
    /\ t # u /\ DoneOk(t) /\ DoneOk(u)
    /\ ~ret[t].exists /\ entries[ret[t].entry].node = Len(nodes)
    /\ ret[u].exists /\ Has(log[u], "lookup")
    /\ entries[ret[u].entry].node = entries[ret[t].entry].node

\* C29: the mount_count of an entry changes only in a mount or an unmount made
\* from outside; every step of get_or_create_child, create_entry,
\* get_or_create_entry, component_lookup, the eviction, and the release and
\* destruction of entries leaves the mount_count of every entry as it was.
C29_MountCountFrame ==
  [][ \/ \A e \in EntryIds : entries'[e].mount_count = entries[e].mount_count
      \/ \E e \in EntryIds : ExternalMount(e) \/ ExternalUnmount(e)
    ]_vars

\* A call created a child under a directory that is a mount point, and the
\* directory still has its one mount.
C29_Witness ==
  \E t \in Threads :
    /\ pc[t] = "done" /\ ret[t].kind = "ok" /\ ~ret[t].exists
    /\ entries[dir[t]].mount_count = 1
    /\ entries[ret[t].entry].mount_count = 0
    /\ Has(log[t], "create_fn")

\* C23: the anonymous filesystem of a kernel is constructed at most once, and
\* every call of anon_fs returns the same instance.
C23_AnonFsOnce ==
  /\ anon.made <= 1
  /\ Cardinality(anon.rets) <= 1

\* The children lock or state lock a thread is blocked on, as a pair of the
\* lock domain and the entry; <<"none", 0>> when it is not blocked.
WaitsFor(t) ==
  IF pc[t] \in {"lockw", "evict", "relockw"} /\ t \notin lk.w[dir[t]]
    THEN <<"children", dir[t]>>
  ELSE IF lk.rn[t].pc = "locking"
    THEN <<"children", lk.rn[t].locks[lk.rn[t].n + 1]>>
  ELSE IF lk.rn[t].pc = "state"
    THEN <<"state", lk.rn[t].st[lk.rn[t].k + 1]>>
  ELSE <<"none", 0>>

\* The threads holding a lock.
HoldersOf(l) ==
  IF l[1] = "children" THEN lk.w[l[2]]
  ELSE IF l[1] = "state" THEN lk.s[l[2]]
  ELSE {}

\* Every thread of S is blocked on a lock that a thread of S holds.
CircularWait(S) ==
  /\ S # {}
  /\ \A t \in S : HoldersOf(WaitsFor(t)) \cap S # {}

\* C21: renames that lock the children maps of their two parents in one fixed
\* order and take state locks one at a time, running concurrently with each
\* other and with get_or_create_child calls, never reach a circular wait.
C21_NoCircularWait ==
  \A S \in SUBSET Threads : ~CircularWait(S)

\* Two renames over the same two parents, given in opposite orders, are in
\* progress; one holds a children lock that the other is blocked on.
C21_Witness ==
  \E t, u \in Threads :
    /\ t # u
    /\ lk.rn[t].pc # "idle" /\ lk.rn[u].pc = "locking"
    /\ lk.rn[t].p1 # lk.rn[t].p2
    /\ lk.rn[t].p1 = lk.rn[u].p2 /\ lk.rn[t].p2 = lk.rn[u].p1
    /\ t \in HoldersOf(WaitsFor(u))

\* At most one holder in each lock domain of each entry.
LockExclusive ==
  /\ \A d \in LockIds : Cardinality(lk.w[d]) + Cardinality(lk.d[d]) <= 1
  /\ \A e \in LockIds : Cardinality(lk.s[e]) <= 1

\* C22: a children map changes only in a step of the thread (or destructor)
\* that holds its write lock, the state fields of an entry change only while
\* its state lock is held, and no lock domain ever has two holders.
C22_MutationsUnderLock ==
  [][/\ LockExclusive /\ LockExclusive'
     /\ \A d \in DOMAIN children :
          children'[d] # children[d] =>
            \/ \E t \in lk.w[d] : pc'[t] # pc[t] \/ lk'.rn[t] # lk.rn[t]
            \/ \E e \in lk.d[d] : e \in destroyed' \ destroyed
     /\ \A e \in EntryIds :
          (e \notin destroyed' /\ entries'[e] # entries[e]) => lk.s[e] # {}
    ]_vars

\* One thread is inside the write-locked section of a children map that has
\* seen an insert or a removal, while another thread is blocked on that lock.
C22_Witness ==
  \E t, u \in Threads :
    /\ t # u
    /\ WaitsFor(u)[1] = "children"
    /\ t \in lk.w[WaitsFor(u)[2]]
    /\ (Len(entries) > 2 \/ evicted # {})

\* A call that is past its fast path and has not ended.
InSlowPath(t) == pc[t] \in {"lockw", "evict", "relockw"}

\* C31: every get_or_create_child call eventually returns; the retry after a
\* failed revalidation does not repeat forever.
C31_EventuallyReturns ==
  \A t \in Threads : InSlowPath(t) ~> (pc[t] = "done")

\* What the code does guarantee: every call ends, by returning or by aborting,
\* after at most one eviction and one retry.
C31_CallEnds ==
  \A t \in Threads : InSlowPath(t) ~> (pc[t] \in {"done", "aborted"})

\* Thread t inserted an entry for a node the backing lookup found (Existed),
\* its revalidation answered Ok(false), and it is about to evict the entry.
InsertedStale(t) ==
  /\ pc[t] = "evict"
  /\ Count(log[t], "lookup") = 1 /\ Count(log[t], "create_fn") = 0

\* C32: an entry inserted as Existed is not returned to another caller before
\* the inserting call has revalidated it: no caller holds, as its result, an
\* entry whose pending revalidation then answers Ok(false).
C32_NotReturnedUnrevalidated ==
  \A t, u \in Threads :
    ~(/\ t # u /\ InsertedStale(t)
      /\ pc[u] = "done" /\ ret[u].kind = "ok" /\ ret[u].entry = child[t])

InvalidName(n) ==
  \/ n \in {<<>>, <<".">>, <<".", ".">>}
  \/ Len(n) > NAME_MAX
  \/ \E i \in 1..Len(n) : n[i] = SEPARATOR

\* The step in which thread t enters a call that name validation rejects:
\* create_entry and get_or_create_entry validate all three conditions,
\* get_or_create_child itself (entered by component_lookup) only the reserved
\* names.
RejectedCall(t) ==
  /\ pc[t] = "idle" /\ pc'[t] # "idle"
  /\ IF op'[t] = "component_lookup" THEN name'[t] \in {<<>>, <<".">>, <<".", ".">>}
     ELSE InvalidName(name'[t])

\* C34: a call rejected by name validation ends at once and has no side effect:
\* the children maps, the entries and the backing store are unchanged, and no
\* backing lookup, create_fn, did_access_dir_entry, did_create_dir_entry or
\* purge_old_entries happens.
C34_RejectedNoEffect ==
  [][\A t \in Threads :
       RejectedCall(t) =>
         /\ pc'[t] \in {"done", "aborted"}
         /\ pc'[t] = "done" => ret'[t].kind = "err"
         /\ children' = children /\ entries' = entries
         /\ nodes' = nodes /\ links' = links
         /\ log'[t] = <<>>
    ]_vars

\* A call with an invalid name was turned down with an error while the cache
\* already held a child.
C34_Witness ==
  \E t \in Threads :
    /\ pc[t] = "done" /\ ret[t].kind = "err"
    /\ InvalidName(name[t])
    /\ children[RootEntry] # {}

\* C35: Mount::New with a Bind WhatToMount returns the null handle at once,
\* constructs no Mount and draws no id from the kernel's counter.
C35_BindReturnsNull ==
  [][\A t \in Threads :
       (mt[t].pc = "idle" /\ mt'[t].pc # "idle" /\ mt'[t].what.type = "Bind") =>
         /\ mt'[t].pc = "made" /\ mt'[t].handle = NoMount
         /\ mounts' = mounts
         /\ next_mount_id_' = next_mount_id_
         /\ panicked' = panicked
    ]_vars

\* A Bind call has returned null after a Mount had been made: the Mount and
\* the counter are as that earlier call left them.
C35_Witness ==
  \E t \in Threads :
    /\ mt[t].pc = "made" /\ mt[t].what.type = "Bind" /\ mt[t].handle = NoMount
    /\ Len(mounts) = 1 /\ next_mount_id_ = 1

\* C36: a call of run_in_state that finds a signal pending while the task is
\* not ptrace-listening returns EINTR, does not invoke the callback and leaves
\* the run state Running.
C36_EintrWithoutCallback ==
  [][(cur'.calls = cur.calls + 1 /\ ~panicked') =>
       IF Len(cur'.frames) > Len(cur.frames)
         THEN LET f == cur'.frames[Len(cur'.frames)]
              IN  ~(f.sig /\ ~f.listen)
         ELSE /\ cur'.last.sig /\ ~cur'.last.listen
              /\ cur'.last.kind = "err" /\ cur'.last.err = "EINTR"
              /\ ~cur'.last.ran
              /\ cur'.frames = cur.frames
              /\ cur.run_state = "Running" /\ cur'.run_state = "Running"
    ]_vars

\* After a call that ran its callback, a later call was turned away with EINTR.
C36_Witness ==
  /\ cur.calls >= 2
  /\ cur.last.kind = "err" /\ cur.last.err = "EINTR"
  /\ cur.last.sig /\ ~cur.last.listen /\ ~cur.last.ran
  /\ cur.run_state = "Running" /\ cur.frames = <<>>

\* C37: run_in_state gets past its entry only from Running and with a requested
\* state other than Running; while the callback runs the run state is the
\* requested one; when the call has returned the callback's result the state is
\* Running; and there is never a second activation inside a callback.
C37_RunStateDiscipline ==
  /\ \A i \in 1..Len(cur.frames) :
       /\ cur.frames[i].from = "Running" /\ cur.frames[i].req # "Running"
       /\ cur.run_state = cur.frames[i].req
  /\ Len(cur.frames) <= 1
  /\ cur.frames = <<>> => cur.run_state = "Running"
  /\ cur.last.ran => cur.last.state = "Running"

\* A call has returned its callback's result, and the callback of a later call
\* is in progress in a blocked state.
C37_Witness ==
  /\ cur.last.ran /\ cur.last.kind = "ok"
  /\ InCallback /\ cur.run_state = "Event"

\* The wrappers alive that hold task k.
HoldersOfTask(k) == {i \in ArtAlive : art.w[i].task = k}

\* C38: every wrapped task is released exactly once whatever moves the
\* wrappers go through: no task is released twice, a task that no wrapper
\* holds any more has been released, and the destructor of an emptied wrapper
\* makes no release call.
C38_ReleasedExactlyOnce ==
  /\ art.empty_calls = 0
  /\ \A k \in 1..art.ntasks :
       /\ art.released[k] <= 1
       /\ HoldersOfTask(k) = {} => art.released[k] = 1
====
